---- MODULE Spec2Model ----
(***************************************************************************)
(* A model of narr_mod: the two narrative structures HarmonStoryCircle and *)
(* VoglerHeroJourney (stage catalogs, text partitioner, keyword analyzer,  *)
(* aggregate evaluator, HTML renderer, prompt builder).                    *)
(*                                                                         *)
(* Python values are modelled as follows.                                  *)
(*   str    a TLA+ string (Len, \o and SubSeq act on strings in TLC).      *)
(*          TLA+ strings are ASCII: the Cyrillic step names and heading of *)
(*          harmon_story_circle.py are transliterated.                     *)
(*   dict   a function whose domain is the set of keys; {} is <<>>.        *)
(*   list   a sequence.                                                    *)
(*   float  an exact rational <<numerator, denominator>> in lowest terms,  *)
(*          except the coordinates radius*cos / radius*sin, which are the  *)
(*          repr() strings of the doubles Python computes.                 *)
(*   a call its outcome [raised |-> "none" or the exception's class,       *)
(*          ret |-> the value returned ("" when it raised)].               *)
(***************************************************************************)
EXTENDS Integers, Sequences, FiniteSets, TLC

VARIABLES STAGES, STORY_STEPS, text, last, memo

vars == <<STAGES, STORY_STEPS, text, last, memo>>

(***************************************************************************)
(* Bounds of the model: the caller's text is a concatenation of at most    *)
(* MaxChunks chunks of Vocabulary.                                         *)
(***************************************************************************)
MaxChunks == 2

\* 70 characters holding no keyword of the catalog.
Filler == "the hero wakes up in a small town and walks down to the market square "

Vocabulary == {"normal", "personality", "LIFE", "nor", "mal ", Filler}

(***************************************************************************)
(* Python's built-in string and dict operations, as the code uses them.    *)
(***************************************************************************)
UpperLetters == "ABCDEFGHIJKLMNOPQRSTUVWXYZ"

LowerLetters == "abcdefghijklmnopqrstuvwxyz"

UpperSet == {SubSeq(UpperLetters, i, i) : i \in 1..26}

\* the lower-case letter of each upper-case letter
LowerOf ==
    [c \in UpperSet |->
        LET i == CHOOSE j \in 1..26 : SubSeq(UpperLetters, j, j) = c
        IN  SubSeq(LowerLetters, i, i)]

\* str.lower() of a one-character string
LowerChar(c) == IF c \in UpperSet THEN LowerOf[c] ELSE c

RECURSIVE Lower(_)
\* str.lower()
Lower(s) ==
    IF Len(s) = 0 THEN ""
    ELSE IF Len(s) = 1 THEN LowerChar(s)
    ELSE LET h == Len(s) \div 2
         IN  Lower(SubSeq(s, 1, h)) \o Lower(SubSeq(s, h + 1, Len(s)))

RECURSIVE Replace(_, _, _)
\* str.replace(old, new) for a one-character old
Replace(s, old, new) ==
    IF Len(s) = 0 THEN ""
    ELSE IF Len(s) = 1 THEN (IF s = old THEN new ELSE s)
    ELSE LET h == Len(s) \div 2
         IN  Replace(SubSeq(s, 1, h), old, new) \o Replace(SubSeq(s, h + 1, Len(s)), old, new)

\* the slice s[start:end] for 0 <= start, 0 <= end
Slice(s, start, end) ==
    LET e == IF end < Len(s) THEN end ELSE Len(s)
    IN  IF start >= e THEN "" ELSE SubSeq(s, start + 1, e)

\* the test `k in s` on strings
Contains(k, s) ==
    \E i \in 0..(Len(s) - Len(k)) : SubSeq(s, i + 1, i + Len(k)) = k

RECURSIVE Join(_, _)
\* sep.join(parts)
Join(sep, parts) ==
    IF Len(parts) = 0 THEN ""
    ELSE IF Len(parts) = 1 THEN parts[1]
    ELSE parts[1] \o sep \o Join(sep, Tail(parts))

\* dict.get(key, default)
Get(d, key, default) == IF key \in DOMAIN d THEN d[key] ELSE default

\* d[key] = value
Put(d, key, value) == (key :> value) @@ d

EmptyDict == <<>>

(***************************************************************************)
(* Floats as exact rationals.                                              *)
(***************************************************************************)
RECURSIVE GCD(_, _)
GCD(a, b) == IF b = 0 THEN a ELSE GCD(b, a % b)

\* n / d for d > 0, n >= 0, in lowest terms
Rat(n, d) == LET g == GCD(n, d) IN <<n \div g, d \div g>>

RatZero == <<0, 1>>

RatAdd(p, q) == Rat(p[1] * q[2] + q[1] * p[2], p[2] * q[2])

RatLeq(p, q) == p[1] * q[2] <= q[1] * p[2]

RatMin(p, q) == IF RatLeq(p, q) THEN p ELSE q

RatMax(p, q) == IF RatLeq(p, q) THEN q ELSE p

\* Python's true division p / q: ZeroDivisionError when q is zero
TrueDiv(p, q) ==
    IF q[1] = 0 THEN [raised |-> "ZeroDivisionError", ret |-> ""]
    ELSE [raised |-> "none", ret |-> Rat(p[1] * q[2], p[2] * q[1])]

Returned(v) == [raised |-> "none", ret |-> v]

Raised(e) == [raised |-> e, ret |-> ""]

(***************************************************************************)
(* vogler_hero_journey.py: enums, constants and the stage catalog.         *)
(* An enum member is modelled by its member name.                          *)
(***************************************************************************)
WorldType == {"ORDINARY", "SPECIAL"}

\* WorldType.<member>.value
WorldValue(w) == IF w = "ORDINARY" THEN "Ordinary World" ELSE "Special World"

ActType == {"BEGINNING", "MIDDLE", "END"}

\* ActType.<member>.value
ActValue(a) ==
    IF a = "BEGINNING" THEN "Beginning" ELSE IF a = "MIDDLE" THEN "Middle" ELSE "End"

TOTAL_STAGES == 12

CIRCLE_DEGREES == 360

\* The class attribute STAGES as the module defines it: one Stage.
VoglerCatalog ==
    << [ number      |-> 1,
         name        |-> "Ordinary World",
         description |-> "Hero's starting point",
         act         |-> "BEGINNING",
         world       |-> "ORDINARY",
         elements    |->
            << [ name        |-> "Initial State",
                 description |-> "Hero's life before the adventure",
                 keywords    |-> <<"normal", "routine", "ordinary", "everyday">>,
                 importance  |-> 9,
                 world_type  |-> "ORDINARY" ],
               [ name        |-> "Character Establishment",
                 description |-> "Introduction of hero's character",
                 keywords    |-> <<"personality", "traits", "background", "life">>,
                 importance  |-> 8,
                 world_type  |-> "ORDINARY" ] >>,
         angle       |-> 0,
         color       |-> "#e6f3ff" ] >>

\* stage.name.lower().replace(" ", "_")
StageKey(stage) == Replace(Lower(stage.name), " ", "_")

(***************************************************************************)
(* VoglerHeroJourney._split_into_stages                                    *)
(***************************************************************************)
RECURSIVE SplitLoop(_, _, _)
\* the loop `for i, stage in enumerate(self.STAGES)`, from index i on
SplitLoop(t, i, stages_content) ==
    IF i >= Len(STAGES) THEN stages_content
    ELSE LET stage        == STAGES[i + 1]
             total_length == Len(t)
             stage_length == total_length \div TOTAL_STAGES
             start        == i * stage_length
             end          == IF i < TOTAL_STAGES - 1 THEN (i + 1) * stage_length
                             ELSE total_length
         IN  SplitLoop(t, i + 1, Put(stages_content, StageKey(stage), Slice(t, start, end)))

_split_into_stages(t) == SplitLoop(t, 0, EmptyDict)

(***************************************************************************)
(* VoglerHeroJourney._analyze_stage                                        *)
(***************************************************************************)
\* IsPresent with the window not lower-cased: a case-sensitive match
IsPresentCaseSensitive(element, stage_content) ==
    \E k \in 1..Len(element.keywords) : Contains(element.keywords[k], stage_content)

\* any(keyword in stage_content.lower() for keyword in element.keywords)
IsPresent(element, stage_content) ==
    LET lowered == Lower(stage_content)
    IN  \E k \in 1..Len(element.keywords) : Contains(element.keywords[k], lowered)

RECURSIVE ElementLoop(_, _, _, _)
\* the loop `for element in stage.elements`, from the j-th element on
ElementLoop(stage, stage_content, j, acc) ==
    IF j > Len(stage.elements) THEN acc
    ELSE LET element    == stage.elements[j]
             is_present == IsPresent(element, stage_content)
         IN  ElementLoop(stage, stage_content, j + 1,
                [ elements_present |-> Put(acc.elements_present, element.name, is_present),
                  strengths  |-> IF is_present
                                 THEN Append(acc.strengths, element.name \o " is well established")
                                 ELSE acc.strengths,
                  weaknesses |-> IF is_present
                                 THEN acc.weaknesses
                                 ELSE Append(acc.weaknesses,
                                             element.name \o " needs more development") ])

\* sum(elements_present.values()): True counts 1, False 0
SumValues(elements_present) ==
    Cardinality({n \in DOMAIN elements_present : elements_present[n]})

_analyze_stage(stage, content) ==
    LET stage_content == Get(content, StageKey(stage), "")
        acc == ElementLoop(stage, stage_content, 1,
                   [elements_present |-> EmptyDict, strengths |-> <<>>, weaknesses |-> <<>>])
        score == TrueDiv(<<SumValues(acc.elements_present), 1>>, <<Len(stage.elements), 1>>)
    IN  IF score.raised # "none" THEN Raised(score.raised)
        ELSE Returned([ kind             |-> "StageAnalysis",
                        elements_present |-> acc.elements_present,
                        strengths        |-> acc.strengths,
                        weaknesses       |-> acc.weaknesses,
                        score            |-> score.ret ])

(***************************************************************************)
(* VoglerHeroJourney._analyze_world, _analyze_transitions,                 *)
(* _analyze_world_balance, _analyze_narrative_flow                         *)
(***************************************************************************)
_analyze_transitions(world_type, content) ==
    [clarity |-> Rat(8, 10), impact |-> Rat(7, 10), smoothness |-> Rat(9, 10)]

\* [content.get(key(s), "") for s in relevant_stages]
WorldWindows(relevant_stages, content) ==
    [k \in 1..Len(relevant_stages) |-> Get(content, StageKey(relevant_stages[k]), "")]

_analyze_world(world_type, content) ==
    LET InWorld(s)      == s.world = world_type
        relevant_stages == SelectSeq(STAGES, InWorld)
        world_content   == Join(" ", WorldWindows(relevant_stages, content))
        balance         == TrueDiv(<<Len(relevant_stages), 1>>, <<Len(STAGES), 1>>)
    IN  IF balance.raised # "none" THEN Raised(balance.raised)
        ELSE Returned([ strength    |-> Rat(Len(world_content), 1000),
                        balance     |-> balance.ret,
                        transitions |-> _analyze_transitions(world_type, content) ])

_analyze_world_balance(content) ==
    LET ordinary_world == _analyze_world("ORDINARY", content)
        special_world  == _analyze_world("SPECIAL", content)
    IN  IF ordinary_world.raised # "none" THEN Raised(ordinary_world.raised)
        ELSE IF special_world.raised # "none" THEN Raised(special_world.raised)
        ELSE TrueDiv(RatMin(ordinary_world.ret.strength, special_world.ret.strength),
                     RatMax(ordinary_world.ret.strength, special_world.ret.strength))

_analyze_narrative_flow(content) == Rat(85, 100)

(***************************************************************************)
(* VoglerHeroJourney._get_stage_analyses, _analyze_overall_structure       *)
(***************************************************************************)
\* the outcomes of _analyze_stage, one per stage of the catalog
_get_stage_analyses(content) ==
    [k \in 1..Len(STAGES) |-> _analyze_stage(STAGES[k], content)]

RECURSIVE SumScores(_, _)
\* sum(stage.score for stage in analyses), over the first n analyses
SumScores(analyses, n) ==
    IF n = 0 THEN RatZero ELSE RatAdd(SumScores(analyses, n - 1), analyses[n].ret.score)

\* Completeness dividing by the declared TOTAL_STAGES, not by len(self.STAGES)
CompletenessOverTotalStages(analyses) ==
    TrueDiv(SumScores(analyses, Len(analyses)), <<TOTAL_STAGES, 1>>)

\* sum(stage.score ...) / len(self.STAGES)
Completeness(analyses) == TrueDiv(SumScores(analyses, Len(analyses)), <<Len(STAGES), 1>>)

_analyze_overall_structure(content) ==
    LET analyses == _get_stage_analyses(content)
        failed   == {k \in 1..Len(analyses) : analyses[k].raised # "none"}
    IN  IF failed # {}
        THEN Raised(analyses[CHOOSE k \in failed : \A m \in failed : k <= m].raised)
        ELSE LET completeness == Completeness(analyses)
                 balance      == _analyze_world_balance(content)
             IN  IF completeness.raised # "none" THEN Raised(completeness.raised)
                 ELSE IF balance.raised # "none" THEN Raised(balance.raised)
                 ELSE Returned([ completeness |-> completeness.ret,
                                 balance      |-> balance.ret,
                                 flow         |-> _analyze_narrative_flow(content) ])

(***************************************************************************)
(* VoglerHeroJourney.CSS_TEMPLATE, visualize, _get_color_by_score          *)
(***************************************************************************)
VoglerCSS_TEMPLATE ==
    "\n"
    \o "        .vogler-journey {\n"
    \o "            width: 800px;\n"
    \o "            height: 800px;\n"
    \o "            position: relative;\n"
    \o "            margin: 50px auto;\n"
    \o "        }\n"
    \o "        .journey-circle {\n"
    \o "            width: 100%;\n"
    \o "            height: 100%;\n"
    \o "            border-radius: 50%;\n"
    \o "            border: 3px solid #333;\n"
    \o "            position: absolute;\n"
    \o "            background: radial-gradient(circle, #fff, #f5f5f5);\n"
    \o "        }\n"
    \o "        .stage {\n"
    \o "            position: absolute;\n"
    \o "            width: 120px;\n"
    \o "            text-align: center;\n"
    \o "            left: 50%;\n"
    \o "            top: 50%;\n"
    \o "            font-size: 14px;\n"
    \o "            line-height: 1.3;\n"
    \o "            transform-origin: 0 0;\n"
    \o "            transition: all 0.3s ease;\n"
    \o "        }\n"
    \o "        .stage-content {\n"
    \o "            background: rgba(255, 255, 255, 0.9);\n"
    \o "            padding: 10px;\n"
    \o "            border-radius: 8px;\n"
    \o "            box-shadow: 0 2px 5px rgba(0,0,0,0.1);\n"
    \o "            transition: all 0.3s ease;\n"
    \o "        }\n"
    \o "        .stage-content:hover {\n"
    \o "            transform: scale(1.1);\n"
    \o "            box-shadow: 0 5px 15px rgba(0,0,0,0.2);\n"
    \o "        }\n"
    \o "        .stage-number {\n"
    \o "            font-weight: bold;\n"
    \o "            color: #666;\n"
    \o "        }\n"
    \o "        .stage-name {\n"
    \o "            font-weight: bold;\n"
    \o "            margin: 5px 0;\n"
    \o "        }\n"
    \o "        .stage-description {\n"
    \o "            font-size: 12px;\n"
    \o "            color: #666;\n"
    \o "        }\n"
    \o "        .world-indicator {\n"
    \o "            width: 10px;\n"
    \o "            height: 10px;\n"
    \o "            border-radius: 50%;\n"
    \o "            display: inline-block;\n"
    \o "            margin-right: 5px;\n"
    \o "        }\n"
    \o "        .ordinary-world {\n"
    \o "            background-color: #4CAF50;\n"
    \o "        }\n"
    \o "        .special-world {\n"
    \o "            background-color: #2196F3;\n"
    \o "        }\n"
    \o "        .connection-line {\n"
    \o "            position: absolute;\n"
    \o "            height: 2px;\n"
    \o "            background: #ddd;\n"
    \o "            transform-origin: 0 0;\n"
    \o "        }\n"
    \o "    "

\* repr() of the double radius * math.cos(math.radians(angle)), for the
\* radii and angles the two renderers use
RadiusCos(radius, angle) ==
    CASE radius = 400 /\ angle = 0   -> "400.0"
      [] radius = 150 /\ angle = -90 -> "9.184850993605149e-15"
      [] radius = 150 /\ angle = -45 -> "106.06601717798213"
      [] radius = 150 /\ angle = 0   -> "150.0"
      [] radius = 150 /\ angle = 45  -> "106.06601717798213"
      [] radius = 150 /\ angle = 90  -> "9.184850993605149e-15"
      [] radius = 150 /\ angle = 135 -> "-106.06601717798212"
      [] radius = 150 /\ angle = 180 -> "-150.0"
      [] radius = 150 /\ angle = 225 -> "-106.06601717798215"

\* repr() of the double radius * math.sin(math.radians(angle))
RadiusSin(radius, angle) ==
    CASE radius = 400 /\ angle = 0   -> "0.0"
      [] radius = 150 /\ angle = -90 -> "-150.0"
      [] radius = 150 /\ angle = -45 -> "-106.06601717798212"
      [] radius = 150 /\ angle = 0   -> "0.0"
      [] radius = 150 /\ angle = 45  -> "106.06601717798212"
      [] radius = 150 /\ angle = 90  -> "150.0"
      [] radius = 150 /\ angle = 135 -> "106.06601717798213"
      [] radius = 150 /\ angle = 180 -> "1.8369701987210297e-14"
      [] radius = 150 /\ angle = 225 -> "-106.06601717798212"

\* green = int(score * 255), score a float in [0, 1] or the int 0
_get_color_by_score(score) ==
    LET green == (score[1] * 255) \div score[2]
    IN  "rgb(200, " \o ToString(green) \o ", 200)"

\* An instance of the dataclass StageAnalysis (a dict has no field "kind" here).
IsStageAnalysis(v) == "kind" \in DOMAIN v

\* the f-string appended to html_parts for one stage
StageHtml(stage, angle, x, y, score) ==
    "\n"
    \o "                <div class='stage' style='\n"
    \o "                    transform: translate(" \o x \o "px, " \o y \o "px) rotate("
    \o ToString(angle) \o "deg);\n"
    \o "                    background-color: " \o _get_color_by_score(score) \o ";\n"
    \o "                '>\n"
    \o "                    <div class='stage-content'>\n"
    \o "                        <div class='stage-number'>" \o ToString(stage.number) \o "</div>\n"
    \o "                        <div class='stage-name'>" \o stage.name \o "</div>\n"
    \o "                        <div class='world-indicator " \o Lower(stage.world)
    \o "-world'></div>\n"
    \o "                        <div class='stage-description'>" \o stage.description
    \o "</div>\n"
    \o "                    </div>\n"
    \o "                </div>\n"
    \o "            "

RECURSIVE VoglerVisualizeLoop(_, _, _)
\* the loop `for stage in self.STAGES` of visualize, from the k-th stage on
VoglerVisualizeLoop(analysis_result, k, html_parts) ==
    IF k > Len(STAGES) THEN Returned(html_parts)
    ELSE LET stage  == STAGES[k]
             angle  == stage.angle
             radius == 400
             x      == RadiusCos(radius, angle)
             y      == RadiusSin(radius, angle)
             stage_analysis ==
                 Get(Get(analysis_result, "stages", EmptyDict), stage.name, EmptyDict)
         IN  IF IsStageAnalysis(stage_analysis)
             THEN Raised("AttributeError")   \* StageAnalysis has no attribute 'get'
             ELSE LET score == Get(stage_analysis, "score", RatZero)
                  IN  VoglerVisualizeLoop(analysis_result, k + 1,
                          Append(html_parts, StageHtml(stage, angle, x, y, score)))

VoglerVisualize(analysis_result) ==
    LET body == VoglerVisualizeLoop(analysis_result, 1,
                    <<"<div class='vogler-journey'>", "<div class='journey-circle'>">>)
    IN  IF body.raised # "none" THEN body
        ELSE Returned(Join("\n", body.ret \o
                 <<"</div>", "</div>", "<style>" \o VoglerCSS_TEMPLATE \o "</style>">>))

(***************************************************************************)
(* VoglerHeroJourney.analyze                                               *)
(***************************************************************************)
\* NarrativeStructure.display_name, of the package's base class
display_name(structure_type) == "display name of " \o structure_type

RECURSIVE StagesLoop(_, _, _)
\* the loop filling analysis["stages"], from the k-th stage on
StagesLoop(formatted_structure, k, stages) ==
    IF k > Len(STAGES) THEN Returned(stages)
    ELSE LET a == _analyze_stage(STAGES[k], formatted_structure)
         IN  IF a.raised # "none" THEN a
             ELSE StagesLoop(formatted_structure, k + 1, Put(stages, STAGES[k].name, a.ret))

VoglerAnalyze(t) ==
    LET formatted_structure == _split_into_stages(t)
        ordinary == _analyze_world("ORDINARY", formatted_structure)
        special  == _analyze_world("SPECIAL", formatted_structure)
        stages   == StagesLoop(formatted_structure, 1, EmptyDict)
        overall  == _analyze_overall_structure(formatted_structure)
    IN  IF ordinary.raised # "none" THEN Raised(ordinary.raised)
        ELSE IF special.raised # "none" THEN Raised(special.raised)
        ELSE IF stages.raised # "none" THEN Raised(stages.raised)
        ELSE IF overall.raised # "none" THEN Raised(overall.raised)
        ELSE LET analysis == [ stages  |-> stages.ret,
                               worlds  |-> [ordinary |-> ordinary.ret, special |-> special.ret],
                               overall |-> overall.ret ]
                 metadata == [ model_name      |-> "gpt-4",
                               model_version   |-> "1.0",
                               confidence      |-> Rat(85, 100),
                               processing_time |-> Rat(1, 1),
                               structure_type  |-> "VOGLER_HERO_JOURNEY",
                               display_name    |-> display_name("VOGLER_HERO_JOURNEY") ]
                 summary  == "Analysis of narrative using Vogler's Hero's Journey"
                 visualization == VoglerVisualize(analysis)
             IN  IF visualization.raised # "none" THEN Raised(visualization.raised)
                 ELSE Returned([ structure     |-> analysis,
                                 summary       |-> summary,
                                 visualization |-> visualization.ret,
                                 metadata      |-> metadata ])

(***************************************************************************)
(* VoglerHeroJourney.get_prompt                                            *)
(***************************************************************************)
RECURSIVE VoglerElementLines(_, _)
\* one line per element of the stage, from the j-th element on
VoglerElementLines(stage, j) ==
    IF j > Len(stage.elements) THEN <<>>
    ELSE <<"   - " \o stage.elements[j].name \o " (Importance: "
           \o ToString(stage.elements[j].importance) \o "/10)">>
         \o VoglerElementLines(stage, j + 1)

RECURSIVE VoglerPromptLoop(_, _, _, _)
\* the loop `for stage in self.STAGES` of get_prompt; "None" is Python's None
VoglerPromptLoop(k, current_act, current_world, prompt_parts) ==
    IF k > Len(STAGES) THEN prompt_parts
    ELSE LET stage == STAGES[k]
             p1 == IF stage.act # current_act
                   THEN Append(prompt_parts, "\nAct - " \o ActValue(stage.act) \o ":")
                   ELSE prompt_parts
             p2 == IF stage.world # current_world
                   THEN Append(p1, "\n" \o WorldValue(stage.world) \o ":")
                   ELSE p1
             p3 == p2 \o << "\n" \o ToString(stage.number) \o ". " \o stage.name,
                            "   Description: " \o stage.description >>
                      \o VoglerElementLines(stage, 1)
         IN  VoglerPromptLoop(k + 1, stage.act, stage.world, p3)

VoglerPromptParts ==
    VoglerPromptLoop(1, "None", "None",
        <<"Analyze the following narrative structure based on Chris Vogler's Hero's Journey:\n">>)

VoglerGetPrompt == Join("\n", VoglerPromptParts)

(***************************************************************************)
(* harmon_story_circle.py: the step catalog (names transliterated).        *)
(***************************************************************************)
ACT_BEGINNING == "Beginning"

ACT_MIDDLE == "Middle"

ACT_END == "End"

StoryStep(number, name, description, color, act, analysis_criteria) ==
    [ number |-> number, name |-> name, description |-> description, color |-> color,
      act |-> act, analysis_criteria |-> analysis_criteria ]

\* The class attribute STORY_STEPS as the module defines it.
HarmonCatalog ==
    << StoryStep(1, "Zona komforta", "Comfort Zone", "#e74c3c", ACT_BEGINNING,
           <<"character establishment", "initial world state", "status quo">>),
       StoryStep(2, "Potrebnost ili zhelanie", "Need or Desire", "#3498db", ACT_BEGINNING,
           <<"motivation clarity", "stakes establishment", "goal definition">>),
       StoryStep(3, "Neznakomaya situatsiya", "Unfamiliar Situation", "#2ecc71", ACT_MIDDLE,
           <<"comfort zone departure", "new challenges", "initial adaptation">>),
       StoryStep(4, "Poisk i adaptatsiya", "Search and Adaptation", "#f39c12", ACT_MIDDLE,
           <<"challenge handling", "skill development", "world exploration">>),
       StoryStep(5, "Poluchenie zhelaemogo", "Getting What They Wanted", "#9b59b6", ACT_MIDDLE,
           <<"goal achievement", "price recognition", "consequence understanding">>),
       StoryStep(6, "Plata za nego", "Paying the Price", "#e67e22", ACT_MIDDLE,
           <<"sacrifice measurement", "cost evaluation", "change catalyst">>),
       StoryStep(7, "Vozvrashchenie k privychnomu", "Return to Familiar", "#1abc9c", ACT_END,
           <<"integration of change", "world comparison", "growth recognition">>),
       StoryStep(8, "Sposobnost menyatsya", "Changed State", "#34495e", ACT_END,
           <<"character evolution", "lesson application", "new normal">>) >>

HarmonCSS_TEMPLATE ==
    "\n"
    \o "        .harmon-circle {\n"
    \o "            width: 400px;\n"
    \o "            height: 400px;\n"
    \o "            border-radius: 50%;\n"
    \o "            border: 2px solid #333;\n"
    \o "            position: relative;\n"
    \o "            margin: 50px auto;\n"
    \o "        }\n"
    \o "        .step {\n"
    \o "            position: absolute;\n"
    \o "            width: 100px;\n"
    \o "            text-align: center;\n"
    \o "            transform-origin: center;\n"
    \o "            transition: all 0.3s ease;\n"
    \o "        }\n"
    \o "        .step:hover {\n"
    \o "            transform-origin: center;\n"
    \o "            transform: scale(1.1);\n"
    \o "        }\n"
    \o "        .step-number {\n"
    \o "            font-weight: bold;\n"
    \o "            font-size: 18px;\n"
    \o "            margin-bottom: 5px;\n"
    \o "        }\n"
    \o "        .step-name {\n"
    \o "            font-size: 12px;\n"
    \o "        }\n"
    \o "        .circle-center {\n"
    \o "            position: absolute;\n"
    \o "            width: 100px;\n"
    \o "            height: 100px;\n"
    \o "            border-radius: 50%;\n"
    \o "            top: 150px;\n"
    \o "            left: 150px;\n"
    \o "            display: flex;\n"
    \o "            align-items: center;\n"
    \o "            justify-content: center;\n"
    \o "            background: rgba(255,255,255,0.9);\n"
    \o "            border: 1px solid #333;\n"
    \o "        }\n"
    \o "    "

(***************************************************************************)
(* HarmonStoryCircle._analyze_step, _evaluate_overall_structure,           *)
(* _calculate_step_position, visualize, analyze, get_prompt                *)
(***************************************************************************)
_analyze_step(step, t) ==
    [ presence     |-> TRUE,
      strength     |-> "medium",
      suggestions  |-> <<>>,
      criteria_met |-> step.analysis_criteria ]

_evaluate_overall_structure(t) ==
    [ circle_completion |-> TRUE, balance |-> "well_balanced", suggestions |-> <<>> ]

\* the angle, in degrees, that _calculate_step_position converts to radians
PositionAngle(step_number) == (step_number - 1) * 45 - 90

\* the pair (x, y), with the default radius of 150
_calculate_step_position(step_number, radius) ==
    LET angle == PositionAngle(step_number)
    IN  <<RadiusCos(radius, angle), RadiusSin(radius, angle)>>

\* the local `angle` of visualize
VisualizeAngle(step) == (step.number - 1) * 45 - 90

\* StepHtml without the step's number element
StepHtmlWithoutNumber(step) ==
    LET xy    == _calculate_step_position(step.number, 150)
        angle == (step.number - 1) * 45 - 90
    IN  << "<div class='step step-" \o ToString(step.number) \o "' style='",
           "transform: rotate(" \o ToString(angle) \o "deg) translate(" \o xy[1] \o "px, "
               \o xy[2] \o "px) rotate(-" \o ToString(angle) \o "deg);",
           "color: " \o step.color \o ";'>",
           "<div class='step-name'>" \o step.name \o "</div>",
           "</div>" >>

\* the six strings visualize adds to html_parts for one step
StepHtml(step) ==
    LET xy    == _calculate_step_position(step.number, 150)
        angle == VisualizeAngle(step)
    IN  << "<div class='step step-" \o ToString(step.number) \o "' style='",
           "transform: rotate(" \o ToString(angle) \o "deg) translate(" \o xy[1] \o "px, "
               \o xy[2] \o "px) rotate(-" \o ToString(angle) \o "deg);",
           "color: " \o step.color \o ";'>",
           "<div class='step-number'>" \o ToString(step.number) \o "</div>",
           "<div class='step-name'>" \o step.name \o "</div>",
           "</div>" >>

RECURSIVE HarmonVisualizeLoop(_, _)
\* the loop `for step in self.STORY_STEPS` of visualize, from the k-th step on
HarmonVisualizeLoop(k, html_parts) ==
    IF k > Len(STORY_STEPS) THEN html_parts
    ELSE HarmonVisualizeLoop(k + 1, html_parts \o StepHtml(STORY_STEPS[k]))

\* the html_parts of visualize before the join
HarmonHtmlParts(analysis_result) ==
    HarmonVisualizeLoop(1, <<"<h1>Syuzhetnyi krug (Den Harmon)</h1>",
                             "<div class='harmon-circle'>">>)
    \o << "<div class='circle-center'>", "Story<br>Circle", "</div>", "</div>",
          "<style>" \o HarmonCSS_TEMPLATE \o "</style>" >>

HarmonVisualize(analysis_result) == Join("\n", HarmonHtmlParts(analysis_result))

RECURSIVE StepsLoop(_, _, _)
\* the dict comprehension {step.name: self._analyze_step(step, text) ...}
StepsLoop(t, k, steps) ==
    IF k > Len(STORY_STEPS) THEN steps
    ELSE StepsLoop(t, k + 1, Put(steps, STORY_STEPS[k].name, _analyze_step(STORY_STEPS[k], t)))

HarmonStructure(t) ==
    [ steps              |-> StepsLoop(t, 1, EmptyDict),
      overall_evaluation |-> _evaluate_overall_structure(t) ]

HarmonAnalyze(t) ==
    LET structure == HarmonStructure(t)
        metadata  == [ model_name      |-> "gpt-4",
                       model_version   |-> "1.0",
                       confidence      |-> Rat(85, 100),
                       processing_time |-> Rat(1, 1),
                       structure_type  |-> "HARMON_CIRCLE",
                       display_name    |-> display_name("HARMON_CIRCLE") ]
        summary   == "Analysis of narrative structure using Harmon's Story Circle"
        visualization == HarmonVisualize(structure)
    IN  [ structure     |-> structure,
          summary       |-> summary,
          visualization |-> visualization,
          metadata      |-> metadata ]

RECURSIVE HarmonPromptLoopStaleAct(_, _, _)
\* the loop of get_prompt without its `current_act = step.act`
HarmonPromptLoopStaleAct(k, current_act, prompt_parts) ==
    IF k > Len(STORY_STEPS) THEN prompt_parts
    ELSE LET step == STORY_STEPS[k]
             p1 == IF step.act # current_act
                   THEN Append(prompt_parts, "\nAct - " \o step.act \o ":")
                   ELSE prompt_parts
             p2 == p1 \o << ToString(step.number) \o ". " \o step.name \o " ("
                                \o step.description \o ")",
                            "   Criteria: " \o Join(", ", step.analysis_criteria) >>
         IN  HarmonPromptLoopStaleAct(k + 1, current_act, p2)

RECURSIVE HarmonPromptLoop(_, _, _)
\* the loop `for step in self.STORY_STEPS` of get_prompt; "None" is Python's None
HarmonPromptLoop(k, current_act, prompt_parts) ==
    IF k > Len(STORY_STEPS) THEN prompt_parts
    ELSE LET step == STORY_STEPS[k]
             p1 == IF step.act # current_act
                   THEN Append(prompt_parts, "\nAct - " \o step.act \o ":")
                   ELSE prompt_parts
             p2 == p1 \o << ToString(step.number) \o ". " \o step.name \o " ("
                                \o step.description \o ")",
                            "   Criteria: " \o Join(", ", step.analysis_criteria) >>
         IN  HarmonPromptLoop(k + 1, step.act, p2)

HarmonPromptParts ==
    HarmonPromptLoop(1, "None",
        <<"Analyze the following narrative structure based on Dan Harmon's Story Circle:\n">>)

HarmonGetPrompt == Join("\n", HarmonPromptParts)

(***************************************************************************)
(* The state machine: a caller holding one instance of each structure.     *)
(*   STAGES, STORY_STEPS  the class attributes (Python lists, mutable)     *)
(*   text                 the text the caller has put together             *)
(*   last                 the most recent call: receiver, method,          *)
(*                        arguments and outcome                            *)
(*   memo                 a visualize() call of the caller's first round,  *)
(*                        on the empty text, which the caller kept         *)
(* The caller puts a text together (Type, NewText), calls a method, looks  *)
(* at its outcome (last), may keep it (Remember), and goes on (Resume):    *)
(* any methods in any order, any number of times, on any of the texts.     *)
(***************************************************************************)
RECURSIVE TextsOf(_)
\* the concatenations of at most n chunks
TextsOf(n) ==
    IF n = 0 THEN {""}
    ELSE LET S == TextsOf(n - 1) IN S \cup {s \o c : s \in S, c \in Vocabulary}

Extendable == TextsOf(MaxChunks - 1)

NoCall == [obj |-> "none", op |-> "none", arg |-> "", raised |-> "none", ret |-> ""]

Call(obj, op, arg, outcome) ==
    [obj |-> obj, op |-> op, arg |-> arg, raised |-> outcome.raised, ret |-> outcome.ret]

\* the partition dicts a caller passes to the private methods: none of the
\* keys, a window given directly, the partitioner's own result
Contents(t) == {EmptyDict, Put(EmptyDict, "ordinary_world", t), _split_into_stages(t)}

\* the analysis dicts a caller passes to VoglerHeroJourney.visualize
VoglerVisualizeArgs(t) ==
    {EmptyDict, [stages |-> EmptyDict]}
    \cup {[stages |-> Put(EmptyDict, "Ordinary World", [score |-> sc])] :
             sc \in {RatZero, Rat(1, 2), Rat(1, 1)}}
    \cup {[stages |-> StagesLoop(c, 1, EmptyDict).ret] : c \in Contents(t)}

\* the analysis dicts a caller passes to HarmonStoryCircle.visualize
HarmonVisualizeArgs(t) == {EmptyDict, HarmonStructure(t)}

Init ==
    /\ STAGES = VoglerCatalog
    /\ STORY_STEPS = HarmonCatalog
    /\ text = ""
    /\ last = NoCall
    /\ memo = NoCall

Type ==
    /\ last.op = "none"
    /\ text \in Extendable
    /\ \E c \in Vocabulary : text' = text \o c
    /\ UNCHANGED <<STAGES, STORY_STEPS, last, memo>>

NewText ==
    /\ last.op = "none"
    /\ text # ""
    /\ text' = ""
    /\ UNCHANGED <<STAGES, STORY_STEPS, last, memo>>

Resume ==
    /\ last.op # "none"
    /\ last' = NoCall
    /\ UNCHANGED <<STAGES, STORY_STEPS, text, memo>>

\* the caller keeps the outcome of a visualize() call of its first round
Remember ==
    /\ text = ""
    /\ last.op = "visualize"
    /\ memo.op = "none"
    /\ memo' = last
    /\ UNCHANGED <<STAGES, STORY_STEPS, text, last>>

CallSplitIntoStages ==
    /\ last.op = "none"
    /\ last' = Call("vogler", "_split_into_stages", text, Returned(_split_into_stages(text)))
    /\ UNCHANGED <<STAGES, STORY_STEPS, text, memo>>

CallAnalyzeStage ==
    /\ last.op = "none"
    /\ \E k \in 1..Len(STAGES), content \in Contents(text) :
          last' = Call("vogler", "_analyze_stage", [stage |-> STAGES[k], content |-> content],
                       _analyze_stage(STAGES[k], content))
    /\ UNCHANGED <<STAGES, STORY_STEPS, text, memo>>

CallAnalyzeWorld ==
    /\ last.op = "none"
    /\ \E world_type \in WorldType, content \in Contents(text) :
          last' = Call("vogler", "_analyze_world",
                       [world_type |-> world_type, content |-> content],
                       _analyze_world(world_type, content))
    /\ UNCHANGED <<STAGES, STORY_STEPS, text, memo>>

CallAnalyzeWorldBalance ==
    /\ last.op = "none"
    /\ \E content \in Contents(text) :
          last' = Call("vogler", "_analyze_world_balance", content,
                       _analyze_world_balance(content))
    /\ UNCHANGED <<STAGES, STORY_STEPS, text, memo>>

CallAnalyzeOverallStructure ==
    /\ last.op = "none"
    /\ \E content \in Contents(text) :
          last' = Call("vogler", "_analyze_overall_structure", content,
                       _analyze_overall_structure(content))
    /\ UNCHANGED <<STAGES, STORY_STEPS, text, memo>>

CallVoglerAnalyze ==
    /\ last.op = "none"
    /\ last' = Call("vogler", "analyze", text, VoglerAnalyze(text))
    /\ UNCHANGED <<STAGES, STORY_STEPS, text, memo>>

CallVoglerVisualize ==
    /\ last.op = "none"
    /\ \E analysis_result \in VoglerVisualizeArgs(text) :
          last' = Call("vogler", "visualize", analysis_result, VoglerVisualize(analysis_result))
    /\ UNCHANGED <<STAGES, STORY_STEPS, text, memo>>

CallVoglerGetPrompt ==
    /\ last.op = "none"
    /\ last' = Call("vogler", "get_prompt", "", Returned(VoglerGetPrompt))
    /\ UNCHANGED <<STAGES, STORY_STEPS, text, memo>>

\* CallHarmonAnalyze with a result that shares the catalog's criteria list
\* and adds a note to it
CallHarmonAnalyzeAliasing ==
    /\ last.op = "none"
    /\ last' = Call("harmon", "analyze", text, Returned(HarmonAnalyze(text)))
    /\ STORY_STEPS' = [STORY_STEPS EXCEPT ![1].analysis_criteria = Append(@, "reviewed")]
    /\ UNCHANGED <<STAGES, text, memo>>

CallHarmonAnalyze ==
    /\ last.op = "none"
    /\ last' = Call("harmon", "analyze", text, Returned(HarmonAnalyze(text)))
    /\ UNCHANGED <<STAGES, STORY_STEPS, text, memo>>

CallHarmonVisualize ==
    /\ last.op = "none"
    /\ \E analysis_result \in HarmonVisualizeArgs(text) :
          last' = Call("harmon", "visualize", analysis_result,
                       Returned(HarmonVisualize(analysis_result)))
    /\ UNCHANGED <<STAGES, STORY_STEPS, text, memo>>

CallCalculateStepPosition ==
    /\ last.op = "none"
    /\ \E k \in 1..Len(STORY_STEPS) :
          last' = Call("harmon", "_calculate_step_position", STORY_STEPS[k].number,
                       Returned([ angle |-> PositionAngle(STORY_STEPS[k].number),
                                  xy    |-> _calculate_step_position(STORY_STEPS[k].number, 150) ]))
    /\ UNCHANGED <<STAGES, STORY_STEPS, text, memo>>

CallHarmonGetPrompt ==
    /\ last.op = "none"
    /\ last' = Call("harmon", "get_prompt", "", Returned(HarmonGetPrompt))
    /\ UNCHANGED <<STAGES, STORY_STEPS, text, memo>>

Next ==
    \/ Type
    \/ NewText
    \/ Resume
    \/ Remember
    \/ CallSplitIntoStages
    \/ CallAnalyzeStage
    \/ CallAnalyzeWorld
    \/ CallAnalyzeWorldBalance
    \/ CallAnalyzeOverallStructure
    \/ CallVoglerAnalyze
    \/ CallVoglerVisualize
    \/ CallVoglerGetPrompt
    \/ CallHarmonAnalyze
    \/ CallHarmonVisualize
    \/ CallCalculateStepPosition
    \/ CallHarmonGetPrompt

Spec == Init /\ [][Next]_vars

(***************************************************************************)
(* Properties.                                                             *)
(***************************************************************************)
\* the windows of a partition dict, one per catalog stage, in stage order
WindowsInOrder(d) == [k \in 1..Len(STAGES) |-> Get(d, StageKey(STAGES[k]), "")]

\* C1: for every text, _split_into_stages returns exactly TOTAL_STAGES (12)
\* windows, and the windows concatenated in stage order are the text.
C1_SplitPartitionsText ==
    last.op = "_split_into_stages" =>
        /\ Cardinality(DOMAIN last.ret) = TOTAL_STAGES
        /\ Join("", WindowsInOrder(last.ret)) = last.arg

\* C2: for every text, the empty one included, analyze(text) of either
\* structure returns an AnalysisResult (structure, summary, visualization,
\* metadata) and does not raise.
C2_AnalyzeNeverRaises ==
    last.op = "analyze" =>
        /\ last.raised = "none"
        /\ DOMAIN last.ret = {"structure", "summary", "visualization", "metadata"}

\* C3: _analyze_world_balance never raises; with both strengths zero it
\* returns a defined value.
C3_WorldBalanceNeverRaises ==
    last.op = "_analyze_world_balance" => last.raised = "none"

RECURSIVE TotalLen(_)
\* the total number of characters of a sequence of windows
TotalLen(windows) ==
    IF Len(windows) = 0 THEN 0 ELSE Len(windows[1]) + TotalLen(Tail(windows))

\* the total number of characters of the windows of the stages of one world
WorldChars(world_type, content) ==
    LET InWorld(st) == st.world = world_type
    IN  TotalLen(WorldWindows(SelectSeq(STAGES, InWorld), content))

\* C4: when the Ordinary-world windows and the Special-world windows have
\* equal total length, _analyze_world_balance returns exactly 1.0; whenever
\* it returns, it returns min(a, b) / max(a, b) for a, b the two totals.
C4_EqualWorldsBalanceOne ==
    last.op = "_analyze_world_balance" =>
        LET a == WorldChars("ORDINARY", last.arg)
            b == WorldChars("SPECIAL", last.arg)
        IN  /\ a = b => (last.raised = "none" /\ last.ret = <<1, 1>>)
            /\ last.raised = "none" =>
                  last.ret[1] * (IF a < b THEN b ELSE a)
                      = last.ret[2] * (IF a < b THEN a ELSE b)

\* the window _analyze_stage reads for the call's stage (absent: empty)
WindowOf(call) == Get(call.arg.content, StageKey(call.arg.stage), "")

\* the elements of a stage that a result marks present (TRUE) or absent (FALSE)
Marked(stage, result, mark) ==
    {j \in 1..Len(stage.elements) : result.elements_present[stage.elements[j].name] = mark}

\* keyword and window compared with the case of both ignored
OccursIgnoringCase(keyword, window) == Contains(Lower(keyword), Lower(window))

\* C5: _analyze_stage marks an element present iff one of its keywords occurs
\* in the stage's window, case ignored; an empty or absent window marks every
\* element absent, a window holding an element's first keyword verbatim marks
\* it present; each present element gets exactly one strength note and each
\* absent element exactly one weakness note.
C5_PresentIffKeywordOccurs ==
    last.op = "_analyze_stage" =>
        LET stage  == last.arg.stage
            window == WindowOf(last)
            r      == last.ret
        IN  /\ last.raised = "none"
            /\ DOMAIN r.elements_present = {stage.elements[j].name : j \in 1..Len(stage.elements)}
            /\ \A j \in 1..Len(stage.elements) :
                  LET e == stage.elements[j]
                  IN  /\ r.elements_present[e.name]
                           <=> \E k \in 1..Len(e.keywords) : OccursIgnoringCase(e.keywords[k], window)
                      /\ window = "" => ~r.elements_present[e.name]
                      /\ Contains(e.keywords[1], window) => r.elements_present[e.name]
                      /\ Cardinality({i \in 1..Len(r.strengths) :
                             r.strengths[i] = e.name \o " is well established"})
                           = IF r.elements_present[e.name] THEN 1 ELSE 0
                      /\ Cardinality({i \in 1..Len(r.weaknesses) :
                             r.weaknesses[i] = e.name \o " needs more development"})
                           = IF r.elements_present[e.name] THEN 0 ELSE 1
            /\ Len(r.strengths) = Cardinality(Marked(stage, r, TRUE))
            /\ Len(r.weaknesses) = Cardinality(Marked(stage, r, FALSE))

\* C5's case: a window that holds a keyword only in upper case ("LIFE") marks
\* that element present and leaves the other element absent.
C5_Witness ==
    /\ last.op = "_analyze_stage"
    /\ last.raised = "none"
    /\ Contains("LIFE", WindowOf(last))
    /\ ~Contains("life", WindowOf(last))
    /\ last.ret.elements_present["Character Establishment"]
    /\ ~last.ret.elements_present["Initial State"]
    /\ Len(last.ret.strengths) = 1
    /\ Len(last.ret.weaknesses) = 1

\* the scores _analyze_stage gives the catalog's stages on a partition dict
StageScores(content) == [k \in 1..Len(STAGES) |-> _analyze_stage(STAGES[k], content).ret.score]

RECURSIVE RatSum(_)
\* the sum of a sequence of rationals
RatSum(qs) == IF Len(qs) = 0 THEN RatZero ELSE RatAdd(qs[1], RatSum(Tail(qs)))

\* C6: for every catalog stage and every window, _analyze_stage does not
\* raise and its score is (elements marked present) / (elements of the
\* stage), within [0, 1] and 0 for an empty or missing window; the
\* completeness _analyze_overall_structure returns is the mean of the
\* per-stage scores over the catalog's stages.
C6_ScoreIsFractionPresent ==
    /\ last.op = "_analyze_stage" =>
          LET stage   == last.arg.stage
              present == Cardinality(Marked(stage, last.ret, TRUE))
              total   == Len(stage.elements)
              score   == last.ret.score
          IN  /\ last.raised = "none"
              /\ score[2] > 0
              /\ score[1] * total = present * score[2]
              /\ 0 <= score[1] /\ score[1] <= score[2]
              /\ WindowOf(last) = "" => score[1] = 0
    /\ (last.op = "_analyze_overall_structure" /\ last.raised = "none") =>
          LET sum == RatSum(StageScores(last.arg))
              c   == last.ret.completeness
          IN  c[1] * sum[2] * Len(STAGES) = sum[1] * c[2]

\* C6's case: a non-empty window with one of the stage's two elements
\* present, scored 1/2.
C6_Witness ==
    /\ last.op = "_analyze_stage"
    /\ last.raised = "none"
    /\ WindowOf(last) # ""
    /\ Cardinality(Marked(last.arg.stage, last.ret, TRUE)) = 1
    /\ last.ret.score = <<1, 2>>

\* C7: in each catalog the stage numbers, in stored order, are 1..N, where N
\* is the declared stage count: 8 for STORY_STEPS, TOTAL_STAGES for STAGES.
C7_CatalogOrdinalsAreOneToN ==
    /\ Len(STORY_STEPS) = 8
    /\ \A k \in 1..Len(STORY_STEPS) : STORY_STEPS[k].number = k
    /\ Len(STAGES) = TOTAL_STAGES
    /\ \A k \in 1..Len(STAGES) : STAGES[k].number = k

\* the offsets at which k occurs in s
Occurrences(k, s) ==
    LET first == SubSeq(k, 1, 1)
        n     == Len(k)
    IN  {i \in 0..(Len(s) - n) : SubSeq(s, i + 1, i + 1) = first /\ SubSeq(s, i + 1, i + n) = k}

\* the names of the catalog's steps
StepNames == {STORY_STEPS[k].name : k \in 1..Len(STORY_STEPS)}

\* C8 as stated: for every text, HarmonStoryCircle.analyze returns steps with
\* exactly 8 keys, the catalog's step names, and a visualization holding
\* exactly 8 occurrences of `step-number` and exactly one of the CSS block.
C8_EightStepNumberOccurrences ==
    (last.obj = "harmon" /\ last.op = "analyze") =>
        /\ last.raised = "none"
        /\ DOMAIN last.ret.structure.steps = StepNames
        /\ Cardinality(StepNames) = 8
        /\ Cardinality(Occurrences("step-number", last.ret.visualization)) = 8
        /\ Cardinality(Occurrences(HarmonCSS_TEMPLATE, last.ret.visualization)) = 1

\* the per-stage element of the k-th step
StepNumberElement(k) ==
    "<div class='step-number'>" \o ToString(STORY_STEPS[k].number) \o "</div>"

\* C8, amended: the per-stage marker is the element <div class='step-number'>,
\* which occurs exactly 8 times, once per step and in catalog order; the
\* substring `step-number` occurs 9 times, the ninth in the CSS block's
\* .step-number rule; the CSS block occurs exactly once, after the markers.
C8_EightStepNumberElements ==
    (last.obj = "harmon" /\ last.op = "analyze") =>
        LET viz     == last.ret.visualization
            markers == Occurrences("<div class='step-number'>", viz)
            css     == Occurrences(HarmonCSS_TEMPLATE, viz)
            \* the number of markers at or before offset i
            Rank(i) == Cardinality({j \in markers : j <= i})
        IN  /\ last.raised = "none"
            /\ DOMAIN last.ret.structure.steps = StepNames
            /\ Cardinality(StepNames) = 8
            /\ Cardinality(markers) = 8
            /\ \A i \in markers :
                  SubSeq(viz, i + 1, i + Len(StepNumberElement(Rank(i))))
                      = StepNumberElement(Rank(i))
            /\ Cardinality(Occurrences("step-number", viz)) = 9
            /\ Cardinality(css) = 1
            /\ \A i \in markers, j \in css : i < j

\* C8's case: analyze() of the Harmon circle has returned for a text that is
\* not empty.
C8_Witness ==
    /\ last.obj = "harmon"
    /\ last.op = "analyze"
    /\ last.raised = "none"
    /\ last.arg # ""
    /\ Len(last.ret.visualization) > Len(HarmonCSS_TEMPLATE)

\* the judgment _analyze_step gives every step, whatever the text
FixedJudgment(step) ==
    [ presence     |-> TRUE,
      strength     |-> "medium",
      suggestions  |-> <<>>,
      criteria_met |-> step.analysis_criteria ]

\* C9: after any sequence of calls both catalogs are what they were at the
\* start; a visualize() call with the receiver and argument of a kept earlier
\* call has the same outcome, byte for byte; and the per-step judgment of
\* HarmonStoryCircle.analyze is the fixed one (present, "medium", no
\* suggestions, all criteria met) for every text.
C9_CatalogsUnchangedCallsRepeatable ==
    /\ STAGES = VoglerCatalog
    /\ STORY_STEPS = HarmonCatalog
    /\ (last.op = "visualize" /\ memo.op = "visualize" /\ last.obj = memo.obj
           /\ last.arg = memo.arg)
          => (last.raised = memo.raised /\ last.ret = memo.ret)
    /\ (last.obj = "harmon" /\ last.op = "analyze") =>
          \A k \in 1..Len(HarmonCatalog) :
              last.ret.structure.steps[HarmonCatalog[k].name] = FixedJudgment(HarmonCatalog[k])

\* C9's case: a visualize() call repeats, in a later round of the caller (on
\* another text), the receiver and argument of the call kept from the first.
C9_Witness ==
    /\ memo.op = "visualize"
    /\ last.op = "visualize"
    /\ last.obj = memo.obj
    /\ last.arg = memo.arg
    /\ text # ""
    /\ last.raised = "none"

\* C10: each rendering places the stage with ordinal k of N at the angle
\* (k - 1) * (360 / N) - 90 degrees, modulo 360: HarmonStoryCircle (N = 8)
\* in _calculate_step_position and in visualize, VoglerHeroJourney
\* (N = TOTAL_STAGES) through the stage's stored angle.
C10_StagePlacedByOrdinal ==
    /\ last.op = "_calculate_step_position" =>
          (last.ret.angle - ((last.arg - 1) * (CIRCLE_DEGREES \div 8) - 90)) % CIRCLE_DEGREES = 0
    /\ (last.obj = "harmon" /\ last.op = "visualize") =>
          \A k \in 1..Len(STORY_STEPS) :
              (VisualizeAngle(STORY_STEPS[k])
                  - ((STORY_STEPS[k].number - 1) * (CIRCLE_DEGREES \div 8) - 90))
                 % CIRCLE_DEGREES = 0
    /\ (last.obj = "vogler" /\ last.op = "visualize" /\ last.raised = "none") =>
          \A k \in 1..Len(STAGES) :
              (STAGES[k].angle
                  - ((STAGES[k].number - 1) * (CIRCLE_DEGREES \div TOTAL_STAGES) - 90))
                 % CIRCLE_DEGREES = 0

\* the lines of a prompt, in order, the blank ones left out
RenderedLines(s) ==
    LET nl       == Occurrences("\n", s)
        n        == Cardinality(nl)
        \* the offset of the i-th line break; the ends of s stand for breaks
        Nth(i)   == IF i = 0 THEN -1
                    ELSE IF i = n + 1 THEN Len(s)
                    ELSE CHOOSE x \in nl : Cardinality({y \in nl : y < x}) = i - 1
        all      == [i \in 1..(n + 1) |-> SubSeq(s, Nth(i - 1) + 2, Nth(i))]
        NotBlank(l) == l # ""
    IN  SelectSeq(all, NotBlank)

\* where the line l stands among lines
Positions(lines, l) == {i \in 1..Len(lines) : lines[i] = l}

\* the header line of an act, given the act's printed value
ActHeader(value) == "Act - " \o value \o ":"

IsActHeader(l) == Len(l) >= 6 /\ SubSeq(l, 1, 6) = "Act - "

\* the header line of a world
WorldHeader(w) == WorldValue(w) \o ":"

IsWorldHeader(l) == \E w \in WorldType : l = WorldHeader(w)

\* the entry line of a Harmon step and of a Vogler stage
HarmonEntry(step) ==
    ToString(step.number) \o ". " \o step.name \o " (" \o step.description \o ")"

VoglerEntry(stage) == ToString(stage.number) \o ". " \o stage.name

\* the stages of a catalog that open a maximal run of equal act / equal world
ActRunStarts(catalog) ==
    {k \in 1..Len(catalog) : k = 1 \/ catalog[k].act # catalog[k - 1].act}

WorldRunStarts(catalog) ==
    {k \in 1..Len(catalog) : k = 1 \/ catalog[k].world # catalog[k - 1].world}

\* HarmonStoryCircle.get_prompt: every step's entry once, in stored and
\* increasing ordinal order; an act header directly before the entries that
\* open a run of equal act, and nowhere else; 3 act headers.
HarmonPromptWalksCatalog ==
    (last.obj = "harmon" /\ last.op = "get_prompt") =>
        LET lines   == RenderedLines(last.ret)
            N       == Len(STORY_STEPS)
            At(k)   == Positions(lines, HarmonEntry(STORY_STEPS[k]))
            Pos(k)  == CHOOSE i \in At(k) : TRUE
            headers == {i \in 1..Len(lines) : IsActHeader(lines[i])}
        IN  /\ last.raised = "none"
            /\ \A k \in 1..N : Cardinality(At(k)) = 1
            /\ \A k \in 2..N : /\ Pos(k - 1) < Pos(k)
                               /\ STORY_STEPS[k - 1].number < STORY_STEPS[k].number
            /\ \A k \in 1..N :
                  (Pos(k) > 1 /\ lines[Pos(k) - 1] = ActHeader(STORY_STEPS[k].act))
                      <=> (k \in ActRunStarts(STORY_STEPS))
            /\ \A i \in headers : \E k \in 1..N : Pos(k) = i + 1
            /\ Cardinality(headers) = Cardinality(ActRunStarts(STORY_STEPS))
            /\ Cardinality(headers) = 3

\* C11 as stated: get_prompt() emits every stage's entry once, in stored and
\* increasing ordinal order; an act header stands immediately before a stage's
\* entry exactly when the stage opens a run of equal act; VoglerHeroJourney
\* emits a world header exactly when the stage opens a run of equal world;
\* the act headers are as many as the runs of equal act (3 for Harmon).
C11_ActHeaderDirectlyBeforeEntry ==
    /\ HarmonPromptWalksCatalog
    /\ (last.obj = "vogler" /\ last.op = "get_prompt") =>
        LET lines   == RenderedLines(last.ret)
            N       == Len(STAGES)
            At(k)   == Positions(lines, VoglerEntry(STAGES[k]))
            Pos(k)  == CHOOSE i \in At(k) : TRUE
            headers == {i \in 1..Len(lines) : IsActHeader(lines[i])}
            worlds  == {i \in 1..Len(lines) : IsWorldHeader(lines[i])}
        IN  /\ last.raised = "none"
            /\ \A k \in 1..N : Cardinality(At(k)) = 1
            /\ \A k \in 2..N : /\ Pos(k - 1) < Pos(k)
                               /\ STAGES[k - 1].number < STAGES[k].number
            /\ \A k \in 1..N :
                  (Pos(k) > 1 /\ lines[Pos(k) - 1] = ActHeader(ActValue(STAGES[k].act)))
                      <=> (k \in ActRunStarts(STAGES))
            /\ Cardinality(headers) = Cardinality(ActRunStarts(STAGES))
            /\ Cardinality(worlds) = Cardinality(WorldRunStarts(STAGES))

\* C11, amended: as stated for HarmonStoryCircle; in VoglerHeroJourney the
\* world header, emitted exactly when the stage opens a run of equal world,
\* stands immediately before the stage's entry, and the act header, emitted
\* exactly when the stage opens a run of equal act, stands immediately before
\* that world header when there is one and before the entry otherwise.
C11_HeadersBeforeEntryActThenWorld ==
    /\ HarmonPromptWalksCatalog
    /\ (last.obj = "vogler" /\ last.op = "get_prompt") =>
        LET lines   == RenderedLines(last.ret)
            N       == Len(STAGES)
            At(k)   == Positions(lines, VoglerEntry(STAGES[k]))
            Pos(k)  == CHOOSE i \in At(k) : TRUE
            headers == {i \in 1..Len(lines) : IsActHeader(lines[i])}
            worlds  == {i \in 1..Len(lines) : IsWorldHeader(lines[i])}
            \* the line an act header of stage k would stand on
            ActPos(k) == IF k \in WorldRunStarts(STAGES) THEN Pos(k) - 2 ELSE Pos(k) - 1
        IN  /\ last.raised = "none"
            /\ \A k \in 1..N : Cardinality(At(k)) = 1
            /\ \A k \in 2..N : /\ Pos(k - 1) < Pos(k)
                               /\ STAGES[k - 1].number < STAGES[k].number
            /\ \A k \in 1..N :
                  (Pos(k) > 1 /\ lines[Pos(k) - 1] = WorldHeader(STAGES[k].world))
                      <=> (k \in WorldRunStarts(STAGES))
            /\ \A k \in 1..N :
                  (ActPos(k) >= 1 /\ lines[ActPos(k)] = ActHeader(ActValue(STAGES[k].act)))
                      <=> (k \in ActRunStarts(STAGES))
            /\ Cardinality(headers) = Cardinality(ActRunStarts(STAGES))
            /\ Cardinality(worlds) = Cardinality(WorldRunStarts(STAGES))

\* C11's case: get_prompt() of the Vogler journey has returned a prompt in
\* which the stage's world header stands between its act header and its entry.
C11_Witness ==
    /\ last.obj = "vogler"
    /\ last.op = "get_prompt"
    /\ last.raised = "none"
    /\ \E k \in 1..Len(STAGES) :
          LET lines == RenderedLines(last.ret)
          IN  \E i \in 1..(Len(lines) - 2) :
                 /\ lines[i] = ActHeader(ActValue(STAGES[k].act))
                 /\ lines[i + 1] = WorldHeader(STAGES[k].world)
                 /\ lines[i + 2] = VoglerEntry(STAGES[k])

====
